---- MODULE Spec2Model ----
(***************************************************************************)
(* The WebSocket channel multiplexer of BaseApiClient                      *)
(* (src/shared/services/base_client.py), of its copy CryptoLyticaClient    *)
(* (src/api/client.py, the same code line for line) and of the subclass    *)
(* ExchangeClient (src/domains/exchange/services/exchange_client.py).      *)
(*                                                                         *)
(* One client instance.  The caller's thread calls connect_websocket,      *)
(* subscribe_channel, disconnect_websocket, subscribe_to_ticker (and       *)
(* unsubscribe, which the classes do not define).  Every WebSocketApp the  *)
(* client creates runs run_forever on a thread of its own, which calls the *)
(* on_open / on_message / on_error / on_close closures of the              *)
(* connect_websocket call that created it.                                 *)
(***************************************************************************)
EXTENDS Naturals, Sequences, FiniteSets, TLC

VARIABLES
    ws_url,         \* self.ws_url: set by __init__, never assigned again
    api_key,        \* self.api_key: set by __init__, never assigned again
    ws,             \* self.ws: 0 is None, else the index in socks of the WebSocketApp
    ws_thread,      \* self.ws_thread: 0 is None, else the socket whose thread it is
    ws_callbacks,   \* self.ws_callbacks: channel name -> list of callbacks
    socks,          \* every WebSocketApp created so far, in creation order
    sub_raised,     \* history: some subscribe_channel call raised out of ws.send
    http,           \* the HTTP layer: the client's base_url and its last request
    rec,            \* the last typed record built by a from_dict constructor
    thr,            \* where the caller's thread and the receive thread stand inside
                    \* subscribe_channel and on_message (SpecThreads)
    ev              \* the operation or socket event that made the last step

vars == <<ws_url, api_key, ws, ws_thread, ws_callbacks, socks, sub_raised, http, rec, thr, ev>>

----------------------------------------------------------------------------
(* Bounds of the model. *)

MaxSockets == 2         \* WebSocketApp objects created in one run
MaxRegistrations == 2   \* callbacks held by the registry, all channels together

----------------------------------------------------------------------------
(* Values. *)

None == "None"                      \* Python's None
WsUrl == "ws://localhost:8000/ws"
WsUrls == {None, "", WsUrl}         \* ws_url: None (api/client.py default), "" (base_client.py default), set
ApiKeys == {"", "key"}
Channels == {"a", "default"}        \* channel names the caller subscribes
Callbacks == {"f", "g"}             \* per-channel callbacks
GlobalCallbacks == {None, "h"}      \* the callback argument of connect_websocket
ExchangeIds == {"binance"}
Symbols == {"BTC/USDT"}

(* Inbound frames, as the text the socket delivers. *)
RawMessages ==
    { "not json", "[1]", "{}", "{\"channel\":\"a\"}" }

(* Mutant of Falsy: `x is None` in place of `not x`. *)
Falsy_NoneOnly(x) == x = None

(* `not x` of Python for the values ws_url and api_key take. *)
Falsy(x) == x = None \/ x = ""

(* json.loads(message) followed by what the handler reads of the result:   *)
(* ok is FALSE when json.loads raises JSONDecodeError; object says whether *)
(* the value is a dict (data.get exists); has is whether the dict has the  *)
(* key "channel"; channel is data.get("channel", "default").               *)
JsonLoads(message) ==
    CASE message = "not json" -> [ok |-> FALSE, object |-> FALSE, has |-> FALSE, channel |-> ""]
      [] message = "[1]" -> [ok |-> TRUE, object |-> FALSE, has |-> FALSE, channel |-> ""]
      [] message = "{}" -> [ok |-> TRUE, object |-> TRUE, has |-> FALSE, channel |-> "default"]
      [] message = "{\"channel\":\"a\"}" ->
            [ok |-> TRUE, object |-> TRUE, has |-> TRUE, channel |-> "a"]

(* The name json in exchange_client.py: the module imports sys, random,    *)
(* typing, datetime, pathlib and the two shared modules, and not json, so  *)
(* json.dumps at line 267 raises NameError.                                *)
JsonBoundInExchangeClient == FALSE

(* f"{exchange_id}.ticker.{symbol}" *)
TickerChannel(exchange_id, symbol) == exchange_id \o ".ticker." \o symbol

----------------------------------------------------------------------------
(* The socket library, as the client uses it. *)

(* A WebSocketApp: "connecting" (thread running, handshake not done),      *)
(* "open" (sock.connected), "closed" (no sock, thread ended or never       *)
(* started).  callback is the connect_websocket argument its closures      *)
(* hold; the closures of a closed socket are never called again, and the   *)
(* model forgets their callback.                                           *)
Closed == [st |-> "closed", callback |-> None]

Live(s) == socks[s].st \in {"connecting", "open"}

LiveSockets == {s \in 1..Len(socks) : Live(s)}

(* self.ws and self.ws.sock and self.ws.sock.connected *)
Connected(handle, sockets) == handle # 0 /\ sockets[handle].st = "open"

(* Mutant of SendRaises: a send on a socket that is not open is dropped     *)
(* without an exception.                                                   *)
SendRaises_Never(handle, sockets) == FALSE

(* WebSocketApp.send raises WebSocketConnectionClosedException unless the  *)
(* socket is open.                                                         *)
SendRaises(handle, sockets) == sockets[handle].st # "open"

Registrations(reg) ==
    LET RECURSIVE Sum(_)
        Sum(S) == IF S = {} THEN 0
                  ELSE LET c == CHOOSE x \in S : TRUE
                       IN Len(reg[c]) + Sum(S \ {c})
    IN Sum(DOMAIN reg)

NoEvent ==
    [kind |-> "init", sock |-> 0, chan |-> "", cb |-> None, msg |-> "",
     ret |-> None, sent |-> <<>>, invoked |-> <<>>, raisedAt |-> 0, log |-> ""]

Msg(to, type, arg) == [to |-> to, type |-> type, arg |-> arg]

----------------------------------------------------------------------------
(* The HTTP layer: values. *)

(* A URL or an endpoint is the sequence of its pieces, "/" being a piece   *)
(* of its own; Text is the string.                                         *)
BaseUrls ==
    { <<"http://h">>, <<"http://h", "/">>, <<"http://h", "/", "api">>,
      <<"http://h", "/", "api", "/">> }
Endpoints ==
    { <<"status">>, <<"/", "status">>, <<"v1", "/", "status">>,
      <<"/", "v1", "/", "status">> }
Methods == {"GET", "POST", "PUT", "DELETE"}
ClientClasses == {"BaseApiClient", "CryptoLyticaClient"}

RECURSIVE Text(_)
Text(pieces) == IF pieces = <<>> THEN "" ELSE Head(pieces) \o Text(Tail(pieces))

(* str.rstrip('/') and str.lstrip('/') *)
RECURSIVE RStrip(_)
RStrip(pieces) ==
    IF pieces # <<>> /\ pieces[Len(pieces)] = "/"
    THEN RStrip(SubSeq(pieces, 1, Len(pieces) - 1)) ELSE pieces

RECURSIVE LStrip(_)
LStrip(pieces) ==
    IF pieces # <<>> /\ Head(pieces) = "/" THEN LStrip(Tail(pieces)) ELSE pieces

(* urllib.parse.urljoin(base, endpoint) for an http base with at most a    *)
(* path and an endpoint that is a relative or an absolute path: an         *)
(* endpoint starting with "/" replaces the whole path of the base, any     *)
(* other endpoint replaces what follows the last "/" of the base's path.   *)
Urljoin(base, endpoint) ==
    LET origin == <<Head(base)>>
        path == Tail(base)
        slashes == {i \in 1..Len(path) : path[i] = "/"}
        last == CHOOSE i \in slashes : \A j \in slashes : j <= i
    IN  IF endpoint = <<>> THEN base
        ELSE IF Head(endpoint) = "/" THEN origin \o endpoint
        ELSE IF path = <<>> THEN origin \o <<"/">> \o endpoint
        ELSE origin \o SubSeq(path, 1, last) \o endpoint

(* f"{self.base_url}/{endpoint.lstrip('/')}" *)
RequestUrl(base, endpoint) == base \o <<"/">> \o LStrip(endpoint)

(* What the server answers: no answer (timeout, DNS failure, refused        *)
(* connection: requests raises a RequestException), or a status and a body. *)
Statuses == {200, 204, 404, 500}
Bodies == {"", "{\"detail\":\"not found\"}", "<html>"}
NoAnswer == [answered |-> FALSE, status |-> 0, body |-> ""]
Responses ==
    {NoAnswer} \cup {[answered |-> TRUE, status |-> st, body |-> b] : st \in Statuses, b \in Bodies}

(* The installed requests: from 2.27 on response.json() raises              *)
(* requests.exceptions.JSONDecodeError, which is a RequestException and a   *)
(* json.JSONDecodeError; before, it raises json.JSONDecodeError.            *)
RequestsVersions == {"2.27+", "older"}

(* A dict is the set of its <<key, value>> pairs. *)
EmptyObject == {}

(* response.json(): the decoded body, or ok = FALSE when the body is no     *)
(* JSON (the empty body and an HTML page are none).                        *)
ResponseJson(body) ==
    IF body = "{\"detail\":\"not found\"}"
    THEN [ok |-> TRUE, value |-> {<<"detail", "not found">>}]
    ELSE [ok |-> FALSE, value |-> EmptyObject]

(* response.raise_for_status() raises HTTPError for 4xx and 5xx. *)
RaisesForStatus(status) == status >= 400 /\ status < 600

(* str(e) of the HTTPError of raise_for_status(): the status, its reason    *)
(* and the URL; the body of the response is not in it.                     *)
StrOfHTTPError(status, url) ==
    CASE status = 404 -> "404 Client Error: Not Found for url: " \o url
      [] status = 500 -> "500 Server Error: Internal Server Error for url: " \o url
      [] OTHER -> "Error for url: " \o url

(* The client after __init__(base_url, ...): CryptoLyticaClient strips the  *)
(* trailing slashes of base_url, BaseApiClient keeps base_url as given.     *)
HttpIdle(class, base_url) ==
    [class |-> class,
     base_url |-> IF class = "CryptoLyticaClient" THEN RStrip(base_url) ELSE base_url,
     given_base |-> base_url, requested |-> FALSE,
     method |-> "", endpoint |-> <<>>, url |-> "", headers |-> EmptyObject,
     attempts |-> 0, response |-> NoAnswer,
     outcome |-> "", value |-> EmptyObject, exc |-> "", exc_status |-> 0,
     exc_body |-> "", logged |-> ""]

(* The outcomes of a request: a returned dict, or an exception raised to    *)
(* the caller (an HTTPError carries its response: status and body).         *)
Returned(value, logged) ==
    [outcome |-> "return", value |-> value, exc |-> "", exc_status |-> 0,
     exc_body |-> "", logged |-> logged]
Raised(exc, response, logged) ==
    [outcome |-> "raise", value |-> EmptyObject, exc |-> exc,
     exc_status |-> response.status, exc_body |-> response.body, logged |-> logged]

----------------------------------------------------------------------------
(* The typed records of api/models.py and shared/models/common_models.py.  *)
(* A JSON object is the function from the keys it has to their values;     *)
(* every value is written as its text.                                     *)

RecordClasses ==
    {"Exchange", "Blockchain", "Portfolio", "AnalysisResult", "Event", "CommonEvent"}

(* The defaults of the data.get(field, default) calls of cls.from_dict;    *)
(* CommonEvent is the Event of shared/models/common_models.py.  "now" is   *)
(* datetime.now().isoformat().                                             *)
Defaults(cls) ==
    CASE cls = "Exchange" ->
           [id |-> "", name |-> "", status |-> "unknown", supported_markets |-> "[]",
            api_status |-> "unknown", last_update |-> ""]
      [] cls = "Blockchain" ->
           [id |-> "", name |-> "", status |-> "unknown", last_block |-> "0",
            last_update |-> "", network_info |-> "{}"]
      [] cls = "Portfolio" ->
           [id |-> "", name |-> "", assets |-> "[]", total_value |-> "0.0",
            last_update |-> "now"]
      [] cls = "AnalysisResult" ->
           [id |-> "", analysis_type |-> "", timestamp |-> "now", parameters |-> "{}",
            results |-> "{}"]
      [] cls \in {"Event", "CommonEvent"} ->
           [id |-> "", event_type |-> "", source |-> "", severity |-> "info",
            timestamp |-> "now", message |-> "", details |-> "{}"]

FieldsOf(cls) == DOMAIN Defaults(cls)

(* The fields from_dict passes through datetime.fromisoformat. *)
ParsedFields(cls) ==
    CASE cls = "Portfolio" -> {"last_update"}
      [] cls \in {"AnalysisResult", "Event", "CommonEvent"} -> {"timestamp"}
      [] OTHER -> {}

(* The values a field has in a JSON object that has it: an assets list     *)
(* holds one asset, with all the fields of PortfolioAsset or without its   *)
(* allocation.                                                             *)
AssetsValues == {"[asset]", "[asset without allocation]"}
ValueOf(field) ==
    IF field = "id" THEN "x1"
    ELSE IF field \in {"timestamp", "last_update"} THEN "2024-01-01T00:00:00"
    ELSE "v"

JsonObjects(cls) ==
    { [f \in present |-> IF f = "assets" THEN assets ELSE ValueOf(f)] :
        present \in SUBSET FieldsOf(cls), assets \in AssetsValues }

(* dict.get(key, default) *)
Get(data, key, default) == IF key \in DOMAIN data THEN data[key] ELSE default

(* datetime.fromisoformat(text), for the ISO texts above *)
Fromisoformat(text) == "datetime(" \o text \o ")"

(* from_dict(PortfolioAsset, asset) calls PortfolioAsset with the keys of  *)
(* asset as keyword arguments: the dataclass constructor raises TypeError  *)
(* for a missing argument.                                                 *)
AssetsRaise(cls, data) ==
    cls = "Portfolio" /\ Get(data, "assets", "[]") = "[asset without allocation]"

(* cls.from_dict(data) *)
from_dict(cls, data) ==
    IF AssetsRaise(cls, data)
    THEN [built |-> TRUE, cls |-> cls, data |-> data, outcome |-> "raise",
          exc |-> "TypeError", record |-> <<>>]
    ELSE [built |-> TRUE, cls |-> cls, data |-> data, outcome |-> "return", exc |-> "",
          record |-> [f \in FieldsOf(cls) |->
                        LET value == Get(data, f, Defaults(cls)[f])
                        IN  IF f \in ParsedFields(cls) THEN Fromisoformat(value)
                            ELSE IF f = "assets" /\ value = "[asset]"
                            THEN "[PortfolioAsset]"
                            ELSE value]]

NoRecord ==
    [built |-> FALSE, cls |-> "", data |-> <<>>, outcome |-> "", exc |-> "",
     record |-> <<>>]

(* Neither thread is inside subscribe_channel or on_message.  sub is the    *)
(* place of the caller's thread in subscribe_channel(sub_chan, sub_cb),    *)
(* disp the place of the receive thread in on_message of socket disp_sock: *)
(* disp_next is the position of the list iterator of its for loop,         *)
(* disp_len the length the list had when the loop started, disp_invoked    *)
(* the calls it has made.  conn is the place of the receive thread in      *)
(* run_forever before any message ("connecting", "connected": handshake    *)
(* done and on_open not yet run, "opened": on_open has returned), wire the *)
(* types of the messages sent over the socket, in order.                   *)
ThreadsIdle ==
    [sub |-> "idle", sub_chan |-> "", sub_cb |-> None,
     disp |-> "idle", disp_sock |-> 0, disp_msg |-> "", disp_chan |-> "",
     disp_next |-> 0, disp_len |-> 0, disp_invoked |-> <<>>,
     conn |-> "none", wire |-> <<>>]

----------------------------------------------------------------------------
(* __init__ *)

Init ==
    /\ ws_url \in WsUrls
    /\ api_key \in ApiKeys
    /\ ws = 0
    /\ ws_thread = 0
    /\ ws_callbacks = <<>>
    /\ socks = <<>>
    /\ sub_raised = FALSE
    /\ http = HttpIdle("BaseApiClient", <<"http://h">>)
    /\ rec = NoRecord
    /\ thr = ThreadsIdle
    /\ ev = NoEvent

----------------------------------------------------------------------------
(* connect_websocket(callback).  started is whether Thread.start()         *)
(* succeeds: when it raises, self.ws and self.ws_thread are already        *)
(* assigned and the except clause returns False.                           *)

NewSocket(callback, started) ==
    IF started THEN [st |-> "connecting", callback |-> callback] ELSE Closed

connect_websocket(callback, started) ==
    IF Falsy(ws_url)
    THEN /\ ev' = [NoEvent EXCEPT !.kind = "connect", !.cb = callback, !.ret = "False",
                                  !.log = "error"]
         /\ UNCHANGED <<sub_raised, ws_url, api_key, ws, ws_thread, ws_callbacks, socks>>
    ELSE /\ Len(socks) < MaxSockets
         /\ socks' = Append(socks, NewSocket(callback, started))
         /\ ws' = Len(socks) + 1
         /\ ws_thread' = Len(socks) + 1
         /\ ev' = [NoEvent EXCEPT !.kind = "connect", !.cb = callback,
                                  !.sock = Len(socks) + 1,
                                  !.ret = IF started THEN "True" ELSE "False",
                                  !.log = IF started THEN "" ELSE "error"]
         /\ UNCHANGED <<sub_raised, ws_url, api_key, ws_callbacks>>

----------------------------------------------------------------------------
(* subscribe_channel(channel, callback) *)

(* Mutant of RegisterCallback: self.ws_callbacks[channel] = [callback]. *)
RegisterCallback_Overwrite(reg, channel, callback) ==
    [c \in DOMAIN reg \cup {channel} |-> IF c = channel THEN <<callback>> ELSE reg[c]]

(* if channel not in self.ws_callbacks: self.ws_callbacks[channel] = []    *)
(* self.ws_callbacks[channel].append(callback)                             *)
RegisterCallback(reg, channel, callback) ==
    [c \in DOMAIN reg \cup {channel} |->
        IF c = channel
        THEN (IF c \in DOMAIN reg THEN reg[c] ELSE <<>>) \o <<callback>>
        ELSE reg[c]]

(* Mutant of subscribe_channel: with no socket held it calls                *)
(* connect_websocket() before it returns False.                            *)
subscribe_channel_AutoConnect(channel, callback) ==
    IF ws = 0
    THEN /\ ~Falsy(ws_url)
         /\ Len(socks) < MaxSockets
         /\ socks' = Append(socks, NewSocket(None, TRUE))
         /\ ws' = Len(socks) + 1
         /\ ws_thread' = Len(socks) + 1
         /\ ev' = [NoEvent EXCEPT !.kind = "subscribe", !.chan = channel,
                                  !.cb = callback, !.ret = "False"]
         /\ UNCHANGED <<sub_raised, ws_url, api_key, ws_callbacks>>
    ELSE /\ Registrations(ws_callbacks) < MaxRegistrations
         /\ ws_callbacks' = RegisterCallback(ws_callbacks, channel, callback)
         /\ ev' = [NoEvent EXCEPT !.kind = "subscribe", !.chan = channel,
                                  !.cb = callback, !.sock = ws,
                                  !.ret = IF SendRaises(ws, socks) THEN "raised" ELSE "True",
                                  !.sent = IF SendRaises(ws, socks) THEN <<>>
                                           ELSE <<Msg(ws, "subscribe", channel)>>]
         /\ sub_raised' = (sub_raised \/ SendRaises(ws, socks))
         /\ UNCHANGED <<ws_url, api_key, ws, ws_thread, socks>>

subscribe_channel(channel, callback) ==
    IF ws = 0
    THEN /\ ev' = [NoEvent EXCEPT !.kind = "subscribe", !.chan = channel,
                                  !.cb = callback, !.ret = "False"]
         /\ UNCHANGED <<sub_raised, ws_url, api_key, ws, ws_thread, ws_callbacks, socks>>
    ELSE /\ Registrations(ws_callbacks) < MaxRegistrations
         /\ ws_callbacks' = RegisterCallback(ws_callbacks, channel, callback)
         /\ ev' = IF SendRaises(ws, socks)
                  THEN [NoEvent EXCEPT !.kind = "subscribe", !.chan = channel,
                                       !.cb = callback, !.sock = ws, !.ret = "raised"]
                  ELSE [NoEvent EXCEPT !.kind = "subscribe", !.chan = channel,
                                       !.cb = callback, !.sock = ws, !.ret = "True",
                                       !.sent = <<Msg(ws, "subscribe", channel)>>]
         /\ sub_raised' = (sub_raised \/ SendRaises(ws, socks))
         /\ UNCHANGED <<ws_url, api_key, ws, ws_thread, socks>>

----------------------------------------------------------------------------
(* disconnect_websocket() *)

(* Mutant of disconnect_websocket: it also empties the registry. *)
disconnect_websocket_ClearsRegistry ==
    IF ws # 0
    THEN /\ socks' = [socks EXCEPT ![ws] = Closed]
         /\ ws' = 0
         /\ ws_callbacks' = <<>>
         /\ ev' = [NoEvent EXCEPT !.kind = "disconnect", !.sock = ws, !.ret = "True"]
         /\ UNCHANGED <<sub_raised, ws_url, api_key, ws_thread>>
    ELSE /\ ev' = [NoEvent EXCEPT !.kind = "disconnect", !.ret = "False"]
         /\ UNCHANGED <<sub_raised, ws_url, api_key, ws, ws_thread, ws_callbacks, socks>>

disconnect_websocket ==
    IF ws # 0
    THEN /\ socks' = [socks EXCEPT ![ws] = Closed]
         /\ ws' = 0
         /\ ev' = [NoEvent EXCEPT !.kind = "disconnect", !.sock = ws, !.ret = "True"]
         /\ UNCHANGED <<sub_raised, ws_url, api_key, ws_thread, ws_callbacks>>
    ELSE /\ ev' = [NoEvent EXCEPT !.kind = "disconnect", !.ret = "False"]
         /\ UNCHANGED <<sub_raised, ws_url, api_key, ws, ws_thread, ws_callbacks, socks>>

----------------------------------------------------------------------------
(* ExchangeClient.subscribe_to_ticker(exchange_id, symbol, callback).      *)
(* The call is one step: connect_websocket() returns before the handshake, *)
(* and whether or not the socket opens before line 261 reads               *)
(* self.ws.sock.connected the call returns False (NameError on json when   *)
(* connected, the else branch when not); an on_open that wins that race    *)
(* is the on_open step following this one.                                 *)

subscribe_to_ticker(exchange_id, symbol, callback, started) ==
    LET channel == TickerChannel(exchange_id, symbol)
        connects == ws = 0
        handle == IF connects THEN Len(socks) + 1 ELSE ws
        sockets == IF connects THEN Append(socks, NewSocket(None, started)) ELSE socks
        base == [NoEvent EXCEPT !.kind = "ticker", !.chan = channel, !.cb = callback]
    IN  IF Falsy(ws_url)
        THEN /\ ev' = [base EXCEPT !.ret = "False", !.log = "warning"]
             /\ UNCHANGED <<sub_raised, ws_url, api_key, ws, ws_thread, ws_callbacks, socks>>
        ELSE /\ connects => Len(socks) < MaxSockets
             /\ ~connects => started
             /\ socks' = sockets
             /\ ws' = handle
             /\ ws_thread' = IF connects THEN handle ELSE ws_thread
             /\ IF Connected(handle, sockets)
                THEN IF JsonBoundInExchangeClient
                     THEN /\ Registrations(ws_callbacks) < MaxRegistrations
                          /\ ws_callbacks' = RegisterCallback(ws_callbacks, channel, callback)
                          /\ ev' = [base EXCEPT !.sock = handle, !.ret = "True",
                                        !.sent = <<Msg(handle, "subscribe", channel),
                                                   Msg(handle, "subscribe", channel)>>]
                     ELSE /\ ws_callbacks' = ws_callbacks
                          /\ ev' = [base EXCEPT !.sock = handle, !.ret = "False",
                                                !.log = "error"]
                ELSE /\ ws_callbacks' = ws_callbacks
                     /\ ev' = [base EXCEPT !.sock = handle, !.ret = "False",
                                           !.log = "error"]
             /\ UNCHANGED <<sub_raised, ws_url, api_key>>

----------------------------------------------------------------------------
(* unsubscribe(channel): neither class defines it (nor any __getattr__),   *)
(* so the call raises AttributeError and touches nothing.                  *)

unsubscribe(channel) ==
    /\ ev' = [NoEvent EXCEPT !.kind = "unsubscribe", !.chan = channel, !.ret = "raised"]
    /\ UNCHANGED <<sub_raised, ws_url, api_key, ws, ws_thread, ws_callbacks, socks>>

----------------------------------------------------------------------------
(* The closures of connect_websocket, run by the thread of socket s. *)

(* on_open: the handshake of s is done; the auth message is sent. *)
on_open(s) ==
    /\ socks[s].st = "connecting"
    /\ socks' = [socks EXCEPT ![s].st = "open"]
    /\ ev' = [NoEvent EXCEPT !.kind = "open", !.sock = s,
                             !.sent = <<Msg(s, "auth", api_key)>>, !.log = "info"]
    /\ UNCHANGED <<sub_raised, ws_url, api_key, ws, ws_thread, ws_callbacks>>

(* Mutant of on_error: the handler connects again. *)
on_error_Reconnect(s) ==
    /\ Live(s)
    /\ Len(socks) < MaxSockets
    /\ socks' = Append([socks EXCEPT ![s] = Closed], NewSocket(socks[s].callback, TRUE))
    /\ ws' = Len(socks) + 1
    /\ ws_thread' = Len(socks) + 1
    /\ ev' = [NoEvent EXCEPT !.kind = "error", !.sock = s, !.log = "error"]
    /\ UNCHANGED <<sub_raised, ws_url, api_key, ws_callbacks>>

(* on_error: run_forever reports a failure of s (refused handshake, broken *)
(* connection) and ends; the handler logs.                                 *)
on_error(s) ==
    /\ Live(s)
    /\ socks' = [socks EXCEPT ![s] = Closed]
    /\ ev' = [NoEvent EXCEPT !.kind = "error", !.sock = s, !.log = "error"]
    /\ UNCHANGED <<sub_raised, ws_url, api_key, ws, ws_thread, ws_callbacks>>

(* on_close: the remote side closes s; the handler logs. *)
on_close(s) ==
    /\ socks[s].st = "open"
    /\ socks' = [socks EXCEPT ![s] = Closed]
    /\ ev' = [NoEvent EXCEPT !.kind = "close", !.sock = s, !.log = "info"]
    /\ UNCHANGED <<sub_raised, ws_url, api_key, ws, ws_thread, ws_callbacks>>

(* Mutant of CallList: the closure's callback is called only for a channel *)
(* that has a list.                                                        *)
CallList_GlobalIfRegistered(reg, callback, channel) ==
    IF channel \in DOMAIN reg
    THEN (IF callback # None THEN <<[tag |-> "global", cb |-> callback]>> ELSE <<>>)
         \o [i \in 1..Len(reg[channel]) |-> [tag |-> "channel", cb |-> reg[channel][i]]]
    ELSE <<>>

(* Mutant of CallList: a channel with no list falls back to the list of    *)
(* "default".                                                              *)
CallList_DefaultFallback(reg, callback, channel) ==
    LET list == IF channel \in DOMAIN reg THEN reg[channel]
                ELSE IF "default" \in DOMAIN reg THEN reg["default"] ELSE <<>>
    IN (IF callback # None THEN <<[tag |-> "global", cb |-> callback]>> ELSE <<>>)
       \o [i \in 1..Len(list) |-> [tag |-> "channel", cb |-> list[i]]]

(* The calls on_message makes for a dict whose channel is `channel`, in    *)
(* order: the closure's callback if truthy, then the channel's list.       *)
CallList(reg, callback, channel) ==
    (IF callback # None THEN <<[tag |-> "global", cb |-> callback]>> ELSE <<>>)
    \o (IF channel \in DOMAIN reg
        THEN [i \in 1..Len(reg[channel]) |-> [tag |-> "channel", cb |-> reg[channel][i]]]
        ELSE <<>>)

(* The calls made when the raisesAt-th call raises (0: none does): the     *)
(* exception leaves the try block, so the calls after it are not made.     *)
Invoked(calls, raisesAt) ==
    IF raisesAt = 0 THEN calls ELSE SubSeq(calls, 1, raisesAt)

(* Mutant of Catches: the handler has the JSONDecodeError clause only. *)
Catches_DecodeErrorOnly(exc) == exc = "JSONDecodeError"

(* Mutant of Catches: the handler has no clause for JSONDecodeError and     *)
(* catches the lookup and callback errors only.                            *)
Catches_NoDecodeError(exc) == exc \in {"AttributeError", "CallbackError"}

(* The except clauses of on_message: json.JSONDecodeError, then Exception. *)
(* JSONDecodeError is what json.loads raises, AttributeError what data.get *)
(* raises on a value that is no dict, CallbackError stands for whatever a  *)
(* callback raises (an Exception).                                         *)
Catches(exc) == exc \in {"JSONDecodeError", "AttributeError", "CallbackError"}

(* What the handler logs for a caught exception. *)
LogOf(exc) ==
    IF exc = "" THEN "" ELSE IF exc = "JSONDecodeError" THEN "parse error"
    ELSE "processing error"

(* on_message(ws, message) on socket s; raisesAt picks the call that       *)
(* raises (0: none).  ret is "raised" when an exception leaves the handler *)
(* into run_forever.                                                       *)
on_message(s, message, raisesAt) ==
    LET data == JsonLoads(message)
        calls == IF data.ok /\ data.object
                 THEN CallList(ws_callbacks, socks[s].callback, data.channel)
                 ELSE <<>>
        exc == IF ~data.ok THEN "JSONDecodeError"
               ELSE IF ~data.object THEN "AttributeError"
               ELSE IF raisesAt # 0 THEN "CallbackError" ELSE ""
    IN  /\ socks[s].st = "open"
        /\ raisesAt <= Len(calls)
        /\ ev' = [NoEvent EXCEPT !.kind = "message", !.sock = s, !.msg = message,
                                 !.chan = data.channel,
                                 !.invoked = Invoked(calls, raisesAt),
                                 !.raisedAt = raisesAt,
                                 !.ret = IF exc = "" \/ Catches(exc) THEN None
                                         ELSE "raised",
                                 !.log = IF Catches(exc) THEN LogOf(exc) ELSE ""]
        /\ UNCHANGED <<sub_raised, ws_url, api_key, ws, ws_thread, ws_callbacks, socks>>

----------------------------------------------------------------------------
----------------------------------------------------------------------------
(* The HTTP layer: BaseApiClient.get/post/put/delete and                   *)
(* CryptoLyticaClient._request.  Each takes the endpoint and, as the       *)
(* environment's part, the answer of the server and the installed requests.*)

(* _get_headers of either class: BaseApiClient adds X-API-Key under        *)
(* `if self.api_key:`, CryptoLyticaClient always has                       *)
(* "Authorization": f"Bearer {self.api_key}".                              *)
_get_headers(class, key) ==
    {<<"Content-Type", "application/json">>, <<"Accept", "application/json">>}
    \cup (IF class = "BaseApiClient"
          THEN (IF ~Falsy(key) THEN {<<"X-API-Key", key>>} ELSE {})
          ELSE {<<"Authorization", "Bearer " \o key>>})

Requested(method, endpoint, url, headers, response, result) ==
    [class |-> http.class, base_url |-> http.base_url, given_base |-> http.given_base,
     requested |-> TRUE, method |-> method, endpoint |-> endpoint, url |-> Text(url),
     headers |-> headers, attempts |-> 1, response |-> response,
     outcome |-> result.outcome, value |-> result.value, exc |-> result.exc,
     exc_status |-> result.exc_status, exc_body |-> result.exc_body,
     logged |-> result.logged]

(* _handle_response, inside the try of the calling method: the HTTPError    *)
(* of raise_for_status is a RequestException, logged and re-raised by the   *)
(* caller's except; json.JSONDecodeError (of which requests' own            *)
(* JSONDecodeError is a subclass) is caught here; the text of the error     *)
(* entry is in Korean in the source ("response format error").             *)
_handle_response(response) ==
    IF RaisesForStatus(response.status)
    THEN Raised("HTTPError", response, "request error")
    ELSE IF response.status = 204
    THEN Returned(EmptyObject, "")
    ELSE IF ResponseJson(response.body).ok
    THEN Returned(ResponseJson(response.body).value, "")
    ELSE Returned({<<"error", "response format error">>, <<"content", response.body>>},
                  "json parse error")

BaseRequest(method, endpoint, response) ==
    /\ http.class = "BaseApiClient"
    /\ LET url == Urljoin(http.base_url, endpoint)
           result == IF ~response.answered
                     THEN Raised("ConnectionError", response, "request error")
                     ELSE _handle_response(response)
       IN  http' = Requested(method, endpoint, url, _get_headers(http.class, api_key),
                             response, result)
    /\ UNCHANGED <<ws_url, api_key, ws, ws_thread, ws_callbacks, socks, sub_raised, rec, thr, ev>>

get(endpoint, response) == BaseRequest("GET", endpoint, response)
post(endpoint, response) == BaseRequest("POST", endpoint, response)
put(endpoint, response) == BaseRequest("PUT", endpoint, response)
delete(endpoint, response) == BaseRequest("DELETE", endpoint, response)

_request(method, endpoint, response, requests_version) ==
    /\ http.class = "CryptoLyticaClient"
    /\ LET url == RequestUrl(http.base_url, endpoint)
           result ==
               IF ~response.answered
               THEN Returned({<<"error", "ConnectionError">>}, "request error")
               ELSE IF RaisesForStatus(response.status)
               THEN Returned({<<"error", StrOfHTTPError(response.status, Text(url))>>},
                             "request error")
               ELSE IF ResponseJson(response.body).ok
               THEN Returned(ResponseJson(response.body).value, "")
               ELSE IF requests_version = "2.27+"
               THEN Returned({<<"error", "JSONDecodeError">>}, "request error")
               ELSE Raised("JSONDecodeError", response, "")
       IN  http' = Requested(method, endpoint, url, _get_headers(http.class, api_key),
                             response, result)
    /\ UNCHANGED <<ws_url, api_key, ws, ws_thread, ws_callbacks, socks, sub_raised, rec, thr, ev>>

InitHttp ==
    /\ ws_url = None
    /\ api_key \in ApiKeys
    /\ ws = 0
    /\ ws_thread = 0
    /\ ws_callbacks = <<>>
    /\ socks = <<>>
    /\ sub_raised = FALSE
    /\ http \in {HttpIdle(class, base_url) : class \in ClientClasses, base_url \in BaseUrls}
    /\ rec = NoRecord
    /\ thr = ThreadsIdle
    /\ ev = NoEvent

NextHttp ==
    \/ \E endpoint \in Endpoints, response \in Responses : get(endpoint, response)
    \/ \E endpoint \in Endpoints, response \in Responses : post(endpoint, response)
    \/ \E endpoint \in Endpoints, response \in Responses : put(endpoint, response)
    \/ \E endpoint \in Endpoints, response \in Responses : delete(endpoint, response)
    \/ \E method \in Methods, endpoint \in Endpoints, response \in Responses,
          requests_version \in RequestsVersions :
            _request(method, endpoint, response, requests_version)

SpecHttp == InitHttp /\ [][NextHttp]_vars

----------------------------------------------------------------------------
(* The from_dict constructors, each applied to a JSON object of a          *)
(* response.                                                               *)

Built(cls, data) ==
    /\ rec' = from_dict(cls, data)
    /\ UNCHANGED <<ws_url, api_key, ws, ws_thread, ws_callbacks, socks, sub_raised, http,
                   thr, ev>>

Exchange_from_dict(data) == Built("Exchange", data)
Blockchain_from_dict(data) == Built("Blockchain", data)
Portfolio_from_dict(data) == Built("Portfolio", data)
AnalysisResult_from_dict(data) == Built("AnalysisResult", data)
Event_from_dict(data) == Built("Event", data)
CommonEvent_from_dict(data) == Built("CommonEvent", data)

InitRecords ==
    /\ ws_url = None
    /\ api_key = "key"
    /\ ws = 0
    /\ ws_thread = 0
    /\ ws_callbacks = <<>>
    /\ socks = <<>>
    /\ sub_raised = FALSE
    /\ http = HttpIdle("CryptoLyticaClient", <<"http://h">>)
    /\ rec = NoRecord
    /\ thr = ThreadsIdle
    /\ ev = NoEvent

NextRecords ==
    \/ \E data \in JsonObjects("Exchange") : Exchange_from_dict(data)
    \/ \E data \in JsonObjects("Blockchain") : Blockchain_from_dict(data)
    \/ \E data \in JsonObjects("Portfolio") : Portfolio_from_dict(data)
    \/ \E data \in JsonObjects("AnalysisResult") : AnalysisResult_from_dict(data)
    \/ \E data \in JsonObjects("Event") : Event_from_dict(data)
    \/ \E data \in JsonObjects("CommonEvent") : CommonEvent_from_dict(data)

SpecRecords == InitRecords /\ [][NextRecords]_vars

----------------------------------------------------------------------------
(* The websocket operations leave the HTTP layer alone, and each runs to    *)
(* its end before the next one starts.                                     *)
Rest == UNCHANGED <<http, rec, thr>>

Next ==
    \/ \E callback \in GlobalCallbacks, started \in BOOLEAN :
            connect_websocket(callback, started) /\ Rest
    \/ \E channel \in Channels, callback \in Callbacks :
            subscribe_channel(channel, callback) /\ Rest
    \/ disconnect_websocket /\ Rest
    \/ \E exchange_id \in ExchangeIds, symbol \in Symbols, callback \in Callbacks,
          started \in BOOLEAN :
            subscribe_to_ticker(exchange_id, symbol, callback, started) /\ Rest
    \/ \E channel \in Channels : unsubscribe(channel) /\ Rest
    \/ \E s \in 1..Len(socks) : on_open(s) /\ Rest
    \/ \E s \in 1..Len(socks) : on_error(s) /\ Rest
    \/ \E s \in 1..Len(socks) : on_close(s) /\ Rest
    \/ \E s \in 1..Len(socks), message \in RawMessages,
          raisesAt \in 0..(MaxRegistrations + 1) :
            on_message(s, message, raisesAt) /\ Rest

Spec == Init /\ [][Next]_vars

----------------------------------------------------------------------------
(* subscribe_channel on the caller's thread and on_message on the receive  *)
(* thread (the daemon thread of connect_websocket running run_forever),    *)
(* statement by statement.  The source takes no lock: any statement of one *)
(* thread may run between two statements of the other.                     *)

(* if not self.ws: return False *)
subscribe_channel_enter(channel, callback) ==
    /\ thr.sub = "idle"
    /\ IF ws = 0
       THEN /\ ev' = [NoEvent EXCEPT !.kind = "subscribe", !.chan = channel,
                                     !.cb = callback, !.ret = "False"]
            /\ thr' = thr
       ELSE /\ Registrations(ws_callbacks) < MaxRegistrations
            /\ thr' = [thr EXCEPT !.sub = "register", !.sub_chan = channel,
                                  !.sub_cb = callback]
            /\ ev' = ev
    /\ UNCHANGED <<ws_url, api_key, ws, ws_thread, ws_callbacks, socks, sub_raised, http, rec>>

(* if channel not in self.ws_callbacks: self.ws_callbacks[channel] = [] *)
subscribe_channel_create(channel) ==
    /\ thr.sub = "register"
    /\ thr.sub_chan = channel
    /\ ws_callbacks' = IF channel \in DOMAIN ws_callbacks THEN ws_callbacks
                       ELSE [c \in DOMAIN ws_callbacks \cup {channel} |->
                                IF c = channel THEN <<>> ELSE ws_callbacks[c]]
    /\ thr' = [thr EXCEPT !.sub = "append"]
    /\ UNCHANGED <<ws_url, api_key, ws, ws_thread, socks, sub_raised, http, rec, ev>>

(* self.ws_callbacks[channel].append(callback) *)
subscribe_channel_append(channel) ==
    /\ thr.sub = "append"
    /\ thr.sub_chan = channel
    /\ ws_callbacks' = [ws_callbacks EXCEPT ![channel] = Append(@, thr.sub_cb)]
    /\ thr' = [thr EXCEPT !.sub = "send"]
    /\ UNCHANGED <<ws_url, api_key, ws, ws_thread, socks, sub_raised, http, rec, ev>>

(* self.ws.send(json.dumps(subscribe_message)); return True *)
subscribe_channel_send(channel) ==
    /\ thr.sub = "send"
    /\ thr.sub_chan = channel
    /\ ev' = IF SendRaises(ws, socks)
             THEN [NoEvent EXCEPT !.kind = "subscribe", !.chan = channel,
                                  !.cb = thr.sub_cb, !.sock = ws, !.ret = "raised"]
             ELSE [NoEvent EXCEPT !.kind = "subscribe", !.chan = channel,
                                  !.cb = thr.sub_cb, !.sock = ws, !.ret = "True",
                                  !.sent = <<Msg(ws, "subscribe", channel)>>]
    /\ sub_raised' = (sub_raised \/ SendRaises(ws, socks))
    /\ thr' = [thr EXCEPT !.sub = "idle", !.sub_chan = "", !.sub_cb = None,
                          !.wire = IF SendRaises(ws, socks) THEN @
                                   ELSE Append(@, "subscribe")]
    /\ UNCHANGED <<ws_url, api_key, ws, ws_thread, ws_callbacks, socks, http, rec>>

(* on_message leaves its try block: by its end, or by an exception that    *)
(* one of the except clauses catches and logs.                             *)
Dispatched(s, message, channel, invoked, exc) ==
    [NoEvent EXCEPT !.kind = "message", !.sock = s, !.msg = message, !.chan = channel,
                    !.invoked = invoked,
                    !.raisedAt = IF exc = "CallbackError" THEN Len(invoked) ELSE 0,
                    !.ret = IF exc = "" \/ Catches(exc) THEN None ELSE "raised",
                    !.log = IF Catches(exc) THEN LogOf(exc) ELSE ""]

DispatchLeft(s, message, channel, invoked, exc) ==
    /\ ev' = Dispatched(s, message, channel, invoked, exc)
    /\ thr' = [thr EXCEPT !.disp = "idle", !.disp_sock = 0, !.disp_msg = "",
                          !.disp_chan = "", !.disp_next = 0, !.disp_len = 0,
                          !.disp_invoked = <<>>]

(* data = json.loads(message); channel = data.get("channel", "default");   *)
(* if callback: callback(data) *)
on_message_enter(s, message, raises) ==
    LET data == JsonLoads(message)
        global == IF socks[s].callback # None
                  THEN <<[tag |-> "global", cb |-> socks[s].callback]>> ELSE <<>>
    IN  /\ thr.disp = "idle"
        /\ thr.conn = "opened"
        /\ socks[s].st = "open"
        /\ raises => (data.ok /\ data.object /\ global # <<>>)
        /\ IF ~data.ok THEN DispatchLeft(s, message, data.channel, <<>>, "JSONDecodeError")
           ELSE IF ~data.object
           THEN DispatchLeft(s, message, data.channel, <<>>, "AttributeError")
           ELSE IF raises THEN DispatchLeft(s, message, data.channel, global, "CallbackError")
           ELSE /\ thr' = [thr EXCEPT !.disp = "lookup", !.disp_sock = s,
                                      !.disp_msg = message, !.disp_chan = data.channel,
                                      !.disp_invoked = global]
                /\ ev' = ev
        /\ UNCHANGED <<ws_url, api_key, ws, ws_thread, ws_callbacks, socks, sub_raised, http, rec>>

(* if channel in self.ws_callbacks: for cb in self.ws_callbacks[channel]:   *)
(* the loop gets an iterator over the list object of the registry.         *)
on_message_lookup(s) ==
    /\ thr.disp = "lookup"
    /\ thr.disp_sock = s
    /\ IF thr.disp_chan \in DOMAIN ws_callbacks
       THEN /\ thr' = [thr EXCEPT !.disp = "iterate", !.disp_next = 1,
                                  !.disp_len = Len(ws_callbacks[thr.disp_chan])]
            /\ ev' = ev
       ELSE DispatchLeft(s, thr.disp_msg, thr.disp_chan, thr.disp_invoked, "")
    /\ UNCHANGED <<ws_url, api_key, ws, ws_thread, ws_callbacks, socks, sub_raised, http, rec>>

(* One turn of the loop: the iterator yields the element at its position   *)
(* in the list as it is now, or ends the loop when the position is past    *)
(* the end; cb(data) may raise.                                            *)
on_message_call(s, raises) ==
    LET list == ws_callbacks[thr.disp_chan]
        call == [tag |-> "channel", cb |-> list[thr.disp_next]]
    IN  /\ thr.disp = "iterate"
        /\ thr.disp_sock = s
        /\ raises => thr.disp_next <= Len(list)
        /\ IF thr.disp_next > Len(list)
           THEN DispatchLeft(s, thr.disp_msg, thr.disp_chan, thr.disp_invoked, "")
           ELSE IF raises
           THEN DispatchLeft(s, thr.disp_msg, thr.disp_chan,
                             Append(thr.disp_invoked, call), "CallbackError")
           ELSE /\ thr' = [thr EXCEPT !.disp_next = @ + 1,
                                      !.disp_invoked = Append(@, call)]
                /\ ev' = ev
        /\ UNCHANGED <<ws_url, api_key, ws, ws_thread, ws_callbacks, socks, sub_raised, http, rec>>

(* run_forever on the receive thread: the handshake of s is done, the      *)
(* socket is connected (a send on it succeeds from here on) and on_open    *)
(* has not been called yet.                                                *)
run_forever_connect(s) ==
    /\ thr.conn = "connecting"
    /\ socks[s].st = "connecting"
    /\ socks' = [socks EXCEPT ![s].st = "open"]
    /\ thr' = [thr EXCEPT !.conn = "connected"]
    /\ UNCHANGED <<ws_url, api_key, ws, ws_thread, ws_callbacks, sub_raised, http, rec, ev>>

(* on_open, called by run_forever after the handshake: ws.send of the auth *)
(* message; on a socket closed in between the send raises inside the       *)
(* handler and nothing is sent.                                            *)
on_open_send(s) ==
    /\ thr.conn = "connected"
    /\ thr' = [thr EXCEPT !.conn = "opened",
                          !.wire = IF socks[s].st = "open" THEN Append(@, "auth") ELSE @]
    /\ ev' = [NoEvent EXCEPT !.kind = "open", !.sock = s,
                             !.sent = IF socks[s].st = "open"
                                      THEN <<Msg(s, "auth", api_key)>> ELSE <<>>]
    /\ UNCHANGED <<ws_url, api_key, ws, ws_thread, ws_callbacks, socks, sub_raised, http, rec>>

(* disconnect_websocket on the caller's thread, between two of its         *)
(* subscribe_channel calls: ws.close() does not wait for the receive       *)
(* thread.                                                                 *)
disconnect_websocket_call ==
    /\ thr.sub = "idle"
    /\ disconnect_websocket
    /\ UNCHANGED <<http, rec, thr>>

(* A client whose connect_websocket(callback) has just returned True: the  *)
(* receive thread is started and the handshake is still to come.           *)
InitThreads ==
    /\ ws_url = WsUrl
    /\ api_key \in ApiKeys
    /\ ws = 1
    /\ ws_thread = 1
    /\ ws_callbacks = <<>>
    /\ socks \in {<<NewSocket(callback, TRUE)>> : callback \in GlobalCallbacks}
    /\ sub_raised = FALSE
    /\ http = HttpIdle("BaseApiClient", <<"http://h">>)
    /\ rec = NoRecord
    /\ thr = [ThreadsIdle EXCEPT !.conn = "connecting"]
    /\ ev = NoEvent

NextThreads ==
    \/ \E channel \in Channels, callback \in Callbacks :
            subscribe_channel_enter(channel, callback)
    \/ \E channel \in Channels : subscribe_channel_create(channel)
    \/ \E channel \in Channels : subscribe_channel_append(channel)
    \/ \E channel \in Channels : subscribe_channel_send(channel)
    \/ \E s \in 1..Len(socks), message \in RawMessages, raises \in BOOLEAN :
            on_message_enter(s, message, raises)
    \/ \E s \in 1..Len(socks) : on_message_lookup(s)
    \/ \E s \in 1..Len(socks), raises \in BOOLEAN : on_message_call(s, raises)
    \/ \E s \in 1..Len(socks) : run_forever_connect(s)
    \/ \E s \in 1..Len(socks) : on_open_send(s)
    \/ disconnect_websocket_call

SpecThreads == InitThreads /\ [][NextThreads]_vars

----------------------------------------------------------------------------
(* What the properties below read of a step. *)

(* The per-channel callbacks among the calls of a dispatch, in call order. *)
ChannelCalls(invoked) ==
    LET sel == SelectSeq(invoked, LAMBDA c : c.tag = "channel")
    IN [i \in 1..Len(sel) |-> sel[i].cb]

GlobalCalls(invoked) ==
    LET sel == SelectSeq(invoked, LAMBDA c : c.tag = "global")
    IN [i \in 1..Len(sel) |-> sel[i].cb]

(* The list of a channel, empty when the channel is no key of the registry. *)
ListOf(reg, channel) == IF channel \in DOMAIN reg THEN reg[channel] ELSE <<>>

(* Frames that are no JSON text, JSON texts that are objects. *)
MalformedFrames == {"not json"}
ObjectFrames == {"{}", "{\"channel\":\"a\"}"}
FramesWithChannelField == {"{\"channel\":\"a\"}"}
ChannelOfFrame(message) == IF message = "{\"channel\":\"a\"}" THEN "a" ELSE "default"

UrlUnset == ws_url = None \/ ws_url = ""

----------------------------------------------------------------------------
(* C1: in every reachable state at most one socket of the client is live   *)
(* (a WebSocketApp whose receive thread runs).                             *)
C1_AtMostOneLiveSocket == Cardinality(LiveSockets) <= 1

(* C2: when subscribe_channel(c, f) and then subscribe_channel(c, g), with *)
(* f # g, are the calls that registered on c and both returned True, the   *)
(* dispatch of a JSON object whose channel field is c calls f once and g   *)
(* once, f before g.                                                       *)
C2_BothCalledInOrder ==
    \A f \in Callbacks, g \in Callbacks :
        ( /\ f # g
          /\ ~sub_raised
          /\ ev.kind = "message"
          /\ ev.msg \in FramesWithChannelField
          /\ ListOf(ws_callbacks, ChannelOfFrame(ev.msg)) = <<f, g>> )
        => ChannelCalls(ev.invoked) = <<f, g>>

(* C3: a message on channel c that follows unsubscribe(c), called while c  *)
(* had callbacks, calls none of the callbacks of c, and still calls the    *)
(* global callback of its socket first.                                    *)
C3_UnsubscribeSilencesChannel ==
    [][ ( /\ ev.kind = "unsubscribe"
          /\ ListOf(ws_callbacks, ev.chan) # <<>>
          /\ ev'.kind = "message"
          /\ ev'.msg \in ObjectFrames
          /\ ChannelOfFrame(ev'.msg) = ev.chan )
        => /\ ChannelCalls(ev'.invoked) = <<>>
           /\ socks[ev'.sock].callback # None
                => GlobalCalls(ev'.invoked) = <<socks[ev'.sock].callback>> ]_vars

(* C4: on_message on a frame that is no JSON returns normally, calls no    *)
(* callback, leaves the registry, the handle and the sockets as they were, *)
(* and the socket stays open for the next frame.                           *)
C4_MalformedFrameDropped ==
    [][ (ev'.kind = "message" /\ ev'.msg \in MalformedFrames)
        => /\ ev'.ret = None
           /\ ev'.invoked = <<>>
           /\ ws_callbacks' = ws_callbacks
           /\ ws' = ws
           /\ socks' = socks
           /\ socks'[ev'.sock].st = "open" ]_vars

C4_Witness ==
    /\ ev.kind = "message"
    /\ ev.msg \in MalformedFrames
    /\ socks[ev.sock].callback # None
    /\ DOMAIN ws_callbacks = Channels

(* C5: a channel becomes a key of the registry only in a step that is a    *)
(* subscribe call naming it (so every key was subscribed), and a dispatch  *)
(* calls per-channel callbacks only for a message whose channel is a key   *)
(* of the registry at that time, and only callbacks of that key.           *)
C5_RegistryKeysSubscribed ==
    [][ /\ \A c \in (DOMAIN ws_callbacks') \ (DOMAIN ws_callbacks) :
              ev'.kind \in {"subscribe", "ticker"} /\ ev'.chan = c
        /\ (ev'.kind = "message" /\ ChannelCalls(ev'.invoked) # <<>>)
              => /\ ev'.msg \in ObjectFrames
                 /\ ChannelOfFrame(ev'.msg) \in DOMAIN ws_callbacks
                 /\ \E n \in 1..Len(ws_callbacks[ChannelOfFrame(ev'.msg)]) :
                       ChannelCalls(ev'.invoked)
                         = SubSeq(ws_callbacks[ChannelOfFrame(ev'.msg)], 1, n) ]_vars

C5_Witness ==
    /\ ev.kind = "message"
    /\ Len(ChannelCalls(ev.invoked)) = 2
    /\ DOMAIN ws_callbacks = {"a"}

(* C6: with ws_url None or "", connect_websocket returns False and the     *)
(* client never has a socket object, a thread or a registry entry.         *)
C6_NoUrlNoSocket ==
    UrlUnset =>
        /\ socks = <<>>
        /\ ws = 0
        /\ ws_thread = 0
        /\ ws_callbacks = <<>>
        /\ ev.sent = <<>>
        /\ ev.kind = "connect" => ev.ret = "False"

C6_Witness == UrlUnset /\ ev.kind = "connect" /\ ev.ret = "False" /\ ev.cb # None

(* C7: subscribe_channel(channel, cb) returns True only in a step that     *)
(* appended cb to the list of channel (created when absent), left the      *)
(* other lists alone and sent exactly one subscribe message for channel on *)
(* the client's socket; with no socket held it returns False, sends        *)
(* nothing and leaves the registry unchanged.                              *)
C7_SubscribeChannelContract ==
    [][ ev'.kind = "subscribe"
        => /\ ev'.ret = "True"
                => /\ ws # 0
                   /\ DOMAIN ws_callbacks' = DOMAIN ws_callbacks \cup {ev'.chan}
                   /\ ws_callbacks'[ev'.chan]
                        = Append(ListOf(ws_callbacks, ev'.chan), ev'.cb)
                   /\ \A c \in DOMAIN ws_callbacks :
                        c # ev'.chan => ws_callbacks'[c] = ws_callbacks[c]
                   /\ ev'.sent = <<[to |-> ws, type |-> "subscribe", arg |-> ev'.chan]>>
           /\ ws = 0
                => /\ ev'.ret = "False"
                   /\ ev'.sent = <<>>
                   /\ ws_callbacks' = ws_callbacks ]_vars

C7_Witness ==
    /\ ev.kind = "subscribe"
    /\ ev.ret = "True"
    /\ Len(ListOf(ws_callbacks, ev.chan)) = 2

(* C8: a subscribe call made while the client's socket is not open (none   *)
(* held, handshake pending, closed) reports failure, by returning False or *)
(* by raising; a subscribe call returns True only when a subscribe message *)
(* went out on a socket that was open.                                     *)
C8_NoSilentDrop ==
    [][ ev'.kind \in {"subscribe", "ticker"}
        => /\ (ws = 0 \/ socks[ws].st # "open") => ev'.ret \in {"False", "raised"}
           /\ ev'.ret = "True"
                => /\ ws # 0
                   /\ socks[ws].st = "open"
                   /\ \E i \in 1..Len(ev'.sent) :
                        ev'.sent[i] = [to |-> ws, type |-> "subscribe", arg |-> ev'.chan]
           /\ ev'.ret \in {"True", "False", "raised"} ]_vars

C8_Witness ==
    /\ ev.kind = "subscribe"
    /\ ev.ret = "raised"
    /\ ws # 0
    /\ socks[ws].st = "connecting"

(* C9 as claimed: no step of subscribe_channel or subscribe_to_ticker      *)
(* changes the sockets, the handle or the thread.                          *)
C9_SubscriptionsNeverConnect ==
    [][ ev'.kind \in {"subscribe", "ticker"}
        => socks' = socks /\ ws' = ws /\ ws_thread' = ws_thread ]_vars

(* C9 as amended: the sockets, the handle and the thread change only in    *)
(* steps of connect_websocket, disconnect_websocket, the socket events and *)
(* subscribe_to_ticker; subscribe_channel never changes them;              *)
(* subscribe_to_ticker changes them exactly when ws_url is set and the     *)
(* handle is None, and then by what connect_websocket() does: one new      *)
(* socket, which becomes the handle and the thread.                        *)
C9_OnlyTickerConnects ==
    [][ /\ (socks' # socks \/ ws' # ws \/ ws_thread' # ws_thread)
            => ev'.kind \in {"connect", "disconnect", "open", "close", "error", "ticker"}
        /\ ev'.kind = "ticker"
            => IF ws = 0 /\ ~UrlUnset
               THEN /\ Len(socks') = Len(socks) + 1
                    /\ SubSeq(socks', 1, Len(socks)) = socks
                    /\ socks'[Len(socks')].st \in {"connecting", "closed"}
                    /\ ws' = Len(socks')
                    /\ ws_thread' = Len(socks')
               ELSE socks' = socks /\ ws' = ws /\ ws_thread' = ws_thread ]_vars

C9_Witness ==
    /\ ev.kind = "ticker"
    /\ ev.sock = 2
    /\ ws = 2
    /\ socks[2].st = "connecting"

(* C10 as claimed: once a socket of the client has ended (error, close),   *)
(* a new socket is created only by a connect_websocket call of the caller. *)
C10_ReconnectOnlyByConnectCall ==
    [][ ( /\ \E s \in 1..Len(socks) : socks[s].st = "closed"
          /\ Len(socks') > Len(socks) )
        => ev'.kind = "connect" ]_vars

(* C10 as amended: no socket event creates a socket or moves the handle;   *)
(* once a socket has ended, a new one is created only by a                 *)
(* connect_websocket call of the caller or by a subscribe_to_ticker call   *)
(* made while the handle is None (after disconnect_websocket).             *)
C10_NoAutoReconnect ==
    [][ /\ ev'.kind \in {"open", "close", "error", "message"}
            => Len(socks') = Len(socks) /\ ws' = ws /\ ws_thread' = ws_thread
        /\ ( /\ \E s \in 1..Len(socks) : socks[s].st = "closed"
             /\ Len(socks') > Len(socks) )
            => ev'.kind = "connect" \/ (ev'.kind = "ticker" /\ ws = 0) ]_vars

C10_Witness ==
    /\ ev.kind = "error"
    /\ ws = ev.sock
    /\ socks[ws].st = "closed"
    /\ Len(socks) = 1

----------------------------------------------------------------------------
(* C11: the open event of a socket sends the auth message if and only if   *)
(* an API key is configured (api_key is not empty).                        *)
C11_AuthIffApiKey ==
    ev.kind = "open"
        => ((\E i \in 1..Len(ev.sent) : ev.sent[i].type = "auth") <=> api_key # "")

(* C12: disconnect_websocket on a client that holds a socket closes that   *)
(* socket, sets the handle to None, returns True and leaves every channel  *)
(* and every callback list as it was.                                      *)
C12_DisconnectKeepsRegistry ==
    [][ (ev'.kind = "disconnect" /\ ws # 0)
        => /\ ev'.ret = "True"
           /\ ws' = 0
           /\ socks'[ws].st = "closed"
           /\ \A s \in 1..Len(socks) : s # ws => socks'[s] = socks[s]
           /\ Len(socks') = Len(socks)
           /\ ws_callbacks' = ws_callbacks ]_vars

C12_Witness ==
    /\ ev.kind = "disconnect"
    /\ ev.ret = "True"
    /\ ws = 0
    /\ Registrations(ws_callbacks) = 2

(* C13 as claimed: every frame that json.loads decodes has the global      *)
(* callback of its socket called exactly once.                             *)
DecodableFrames == {"[1]", "{}", "{\"channel\":\"a\"}"}

C13_GlobalCalledForDecodable ==
    (ev.kind = "message" /\ ev.msg \in DecodableFrames /\ socks[ev.sock].callback # None)
        => GlobalCalls(ev.invoked) = <<socks[ev.sock].callback>>

(* C13 as amended: every frame that decodes to a JSON object has the       *)
(* global callback of its socket called exactly once, first, whether or    *)
(* not its channel has a list; a decoded value that is no object is        *)
(* dropped with no call; an object without a channel field selects the     *)
(* list of "default", called in order up to the first call that raises.    *)
C13_GlobalCalledForObjects ==
    ev.kind = "message"
        => /\ (ev.msg \in ObjectFrames /\ socks[ev.sock].callback # None)
                => /\ GlobalCalls(ev.invoked) = <<socks[ev.sock].callback>>
                   /\ ev.invoked[1].tag = "global"
           /\ ev.msg \in ObjectFrames
                => \E n \in 0..Len(ListOf(ws_callbacks, ChannelOfFrame(ev.msg))) :
                      /\ ChannelCalls(ev.invoked)
                            = SubSeq(ListOf(ws_callbacks, ChannelOfFrame(ev.msg)), 1, n)
                      /\ ev.raisedAt = 0
                            => n = Len(ListOf(ws_callbacks, ChannelOfFrame(ev.msg)))
           /\ ev.msg \in DecodableFrames \ ObjectFrames => ev.invoked = <<>>

C13_Witness ==
    /\ ev.kind = "message"
    /\ ev.msg = "{}"
    /\ GlobalCalls(ev.invoked) = <<"h">>
    /\ Len(ChannelCalls(ev.invoked)) = 2
    /\ "a" \notin DOMAIN ws_callbacks

(* C14: an exception raised by a callback during a dispatch does not leave *)
(* on_message: the handler returns normally, the socket stays open, the    *)
(* handle and the registry are unchanged.                                  *)
C14_CallbackErrorCaught ==
    [][ (ev'.kind = "message" /\ ev'.raisedAt # 0)
        => /\ ev'.ret = None
           /\ socks' = socks
           /\ socks'[ev'.sock].st = "open"
           /\ ws' = ws
           /\ ws_thread' = ws_thread
           /\ ws_callbacks' = ws_callbacks ]_vars

C14_Witness ==
    /\ ev.kind = "message"
    /\ ev.raisedAt = 2
    /\ ev.invoked[2].tag = "channel"
    /\ socks[ev.sock].st = "open"

(* C15: once a close event (remote close, or disconnect_websocket) has     *)
(* left the client without an open socket, a subscribe_channel call that   *)
(* follows returns False.                                                  *)
C15_SubscribeAfterCloseReturnsFalse ==
    [][ ( /\ ev.kind \in {"close", "disconnect"}
          /\ (ws = 0 \/ socks[ws].st = "closed")
          /\ ev'.kind = "subscribe" )
        => ev'.ret = "False" ]_vars

(* C16: connect_websocket returns True only if the socket it created is    *)
(* open (Connected) when the call returns.                                 *)
C16_TrueMeansConnected ==
    (ev.kind = "connect" /\ ev.ret = "True") => socks[ev.sock].st = "open"

(* C18: the URL a request goes to is the base URL given to the client,     *)
(* without its trailing slashes, one slash, and the endpoint without its   *)
(* leading slashes, for both client classes.                               *)
C18_UrlIsBaseSlashEndpoint ==
    http.requested
        => http.url = Text(RStrip(http.given_base) \o <<"/">> \o LStrip(http.endpoint))

(* C19: a request answered with status 204 returns the empty object,       *)
(* whatever the body of the response is.                                   *)
C19_NoContentReturnsEmptyObject ==
    (http.requested /\ http.response.answered /\ http.response.status = 204)
        => (http.outcome = "return" /\ http.value = EmptyObject)

(* C20: a request answered with a status of 400 or more raises to the      *)
(* caller an error that carries the status and the body of the response,   *)
(* after one attempt.                                                      *)
C20_ErrorStatusRaises ==
    (http.requested /\ http.response.answered /\ http.response.status >= 400)
        => /\ http.outcome = "raise"
           /\ http.exc_status = http.response.status
           /\ http.exc_body = http.response.body
           /\ http.attempts = 1

(* C17: the registration of subscribe_channel (base_client.py 259-261)     *)
(* and the reading of a callback list by on_message (201-203) exclude each *)
(* other: the receive thread is never between getting a list and the end   *)
(* of its loop while the caller's thread is between the membership test    *)
(* and the append.                                                         *)
C17_RegistrationExcludesDispatch ==
    ~(thr.sub = "append" /\ thr.disp = "iterate")

(* C21: a request answered with a 2xx status other than 204 and a body     *)
(* that is no JSON raises a decode error carrying the raw body to the      *)
(* caller, and returns no value.                                           *)
C21_UndecodableBodyRaises ==
    ( /\ http.requested
      /\ http.response.answered
      /\ http.response.status >= 200 /\ http.response.status < 300
      /\ http.response.status # 204
      /\ ~ResponseJson(http.response.body).ok )
        => /\ http.outcome = "raise"
           /\ http.exc = "JSONDecodeError"
           /\ http.exc_body = http.response.body

(* C22: every request carries Content-Type and Accept application/json,   *)
(* and an authorization header (X-API-Key or Authorization) exactly when   *)
(* the client has a non-empty API key.                                     *)
AuthHeaders(headers) == {h \in headers : h[1] \in {"X-API-Key", "Authorization"}}

C22_HeadersOfRequest ==
    http.requested
        => /\ <<"Content-Type", "application/json">> \in http.headers
           /\ <<"Accept", "application/json">> \in http.headers
           /\ (AuthHeaders(http.headers) # {}) <=> (api_key # "")

(* C23: a request that gets no answer from the network raises the         *)
(* transport error to the caller and returns no value.                     *)
C23_NoAnswerRaises ==
    (http.requested /\ ~http.response.answered)
        => (http.outcome = "raise" /\ http.exc = "ConnectionError")

(* C24: from_dict gives a missing field other than id its default and     *)
(* raises no error for it; with the id missing it raises and builds no     *)
(* record.                                                                 *)
MissingFields == FieldsOf(rec.cls) \ DOMAIN rec.data

C24_MissingIdFails ==
    rec.built
        => IF "id" \in MissingFields
           THEN rec.outcome = "raise"
           ELSE /\ rec.outcome = "return"
                /\ \A f \in MissingFields :
                      rec.record[f] = IF f \in ParsedFields(rec.cls)
                                      THEN Fromisoformat(Defaults(rec.cls)[f])
                                      ELSE Defaults(rec.cls)[f]

(* C25: subscribe_to_ticker called with ws_url set and the socket of the   *)
(* handle open registers the callback on the ticker channel, sends a       *)
(* subscribe message for it and returns True.                              *)
C25_TickerSubscribesWhenConnected ==
    [][ ( /\ ev'.kind = "ticker"
          /\ ~Falsy(ws_url)
          /\ ws # 0
          /\ socks[ws].st = "open" )
        => /\ ev'.ret = "True"
           /\ ws_callbacks' = RegisterCallback(ws_callbacks, ev'.chan, ev'.cb)
           /\ \E i \in 1..Len(ev'.sent) : ev'.sent[i] = Msg(ws, "subscribe", ev'.chan) ]_vars

(* C27: when a call made in the dispatch of a JSON object raises (the      *)
(* global callback or a callback of the channel), every callback           *)
(* registered on the channel of the message is still called once.          *)
C27_CallbacksIsolated ==
    (ev.kind = "message" /\ ev.msg \in ObjectFrames /\ ev.raisedAt # 0)
        => ChannelCalls(ev.invoked) = ListOf(ws_callbacks, ChannelOfFrame(ev.msg))

(* C29: a subscribe_channel call whose send raises leaves the registry as  *)
(* it was before the call.                                                 *)
C29_FailedSubscribeRegistersNothing ==
    [][ (ev'.kind = "subscribe" /\ ev'.ret = "raised")
        => ws_callbacks' = ws_callbacks ]_vars

(* C26: the first message sent over the socket of a connection is its     *)
(* auth message.                                                           *)
C26_AuthSentFirst == thr.wire # <<>> => thr.wire[1] = "auth"

(* C28: once disconnect_websocket has returned True, the receive thread    *)
(* calls no callback for a message of the closed connection.               *)
DispatchCalls ==
    IF thr.disp # "idle" THEN thr.disp_invoked
    ELSE IF ev.kind = "message" THEN ev.invoked ELSE <<>>

C28_NoCallAfterDisconnect ==
    [][ (thr.disp # "idle" /\ ws = 0 /\ socks[thr.disp_sock].st = "closed")
        => Len(DispatchCalls') <= Len(thr.disp_invoked) ]_vars

(* C30: the loop of a dispatch calls no more callbacks than the list of    *)
(* the channel had when the loop started.                                  *)
C30_DispatchCallsSnapshot ==
    thr.disp = "iterate" => thr.disp_next <= thr.disp_len + 1

====
